---- MODULE Spec2Model ----
(***************************************************************************)
(* State machine of the 4-field countdown timer firmware                   *)
(* (src/Padel_Alarm.ino/Padel_Alarm.ino.ino): the per-field timers, the    *)
(* non-blocking alarm sequencer, the persisted alarm configuration and the *)
(* HTTP handlers that mutate them, driven by loop().                       *)
(*                                                                         *)
(* millis() is a 32-bit unsigned millisecond counter.  TLC's integers are  *)
(* 32-bit signed, so a clock value v is kept as the pair <<v \div 1000,    *)
(* v % 1000>>; 2^32 = 4294967 * 1000 + 296.  All clock arithmetic below is *)
(* exact arithmetic modulo 2^32 on that representation.                    *)
(***************************************************************************)
EXTENDS Integers, FiniteSets, TLC

VARIABLES
  now,                \* the value millis() returns
  lastOverflowCheck,  \* static local of checkTimers
  fields,             \* TimerData fields[4]
  alarmConfig,        \* AlarmConfig alarmConfig
  alarmStates,        \* AlarmState alarmStates[4]
  relay,              \* level of each relay pin: TRUE = ON (pin LOW)
  prefs,              \* the "alarm_config" Preferences namespace
  pc,                 \* position of loop()
  resp,               \* status code of the last server.send, 0 before any
  uptime              \* milliseconds since the first modelled iteration

vars == <<now, lastOverflowCheck, fields, alarmConfig, alarmStates, relay,
          prefs, pc, resp, uptime>>

\* ------------------------------------------------------------ bounds
MaxUptime == 30000
MaxReqUptime == 4500
LiveReqUptime == 0
StallMs == 62000
MaxStallUptime == 1500
MaxRunDuration == 31

\* ------------------------------------------------------------ constants
NumFields == 4
WrapSec == 4294967
WrapMs == 296
IntMaxSec == 2147483
MaxDuration == 14400
GracePeriod == 60

Channels == 0 .. (NumFields - 1)

\* ------------------------------------------------- unsigned long arithmetic
U32Zero == <<0, 0>>

\* a clock value advanced by d milliseconds, modulo 2^32
AddMs(t, d) ==
  LET tot == t[2] + d
      s == t[1] + (tot \div 1000)
      m == tot % 1000
  IN IF s > WrapSec \/ (s = WrapSec /\ m >= WrapMs)
     THEN IF m >= WrapMs THEN <<s - WrapSec, m - WrapMs>>
                         ELSE <<s - WrapSec - 1, m + 1000 - WrapMs>>
     ELSE <<s, m>>

\* (a - b) modulo 2^32
SubU32(a, b) ==
  LET dm == a[2] - b[2]
      s1 == IF dm < 0 THEN a[1] - b[1] - 1 ELSE a[1] - b[1]
      m1 == IF dm < 0 THEN dm + 1000 ELSE dm
  IN IF s1 < 0
     THEN <<s1 + WrapSec + ((m1 + WrapMs) \div 1000), (m1 + WrapMs) % 1000>>
     ELSE <<s1, m1>>

\* a < b on unsigned long
LtU32(a, b) == a[1] < b[1] \/ (a[1] = b[1] /\ a[2] < b[2])

\* t / 1000 on unsigned long
DivThousand(t) == t[1]

\* t >= x for an unsigned long t and an int x with 0 <= x <= 2147483000
GeMs(t, x) == IF t[1] >= IntMaxSec THEN TRUE ELSE t[1] * 1000 + t[2] >= x

\* the value of t as an int, for t below 2147483000
ToMs(t) == t[1] * 1000 + t[2]

\* ------------------------------------------------------------ helpers
constrain(amt, low, high) ==
  IF amt < low THEN low ELSE IF amt > high THEN high ELSE amt

validateFieldIndex(index) == index >= 0 /\ index < NumFields

validateAlarmType(type) == type >= 0 /\ type <= 2

\* ------------------------------------------------------------ configuration
DefaultConfig ==
  [testDuration |-> 3, warningDuration |-> 2, timeupDuration |-> 8,
   warningTime |-> 300, repeatCount |-> 3, repeatInterval |-> 2,
   enableWarning |-> TRUE, enableRepeating |-> TRUE]

\* preferences.getInt / getBool: the stored value, or the default when absent
GetPref(store, key, def) == IF key \in DOMAIN store THEN store[key] ELSE def

\* variant: the loaded values are used as stored, without the constrain calls
loadAlarmConfig_NoConstrain(store) ==
  [testDuration    |-> GetPref(store, "testDur", 3),
   warningDuration |-> GetPref(store, "warnDur", 2),
   timeupDuration  |-> GetPref(store, "timeupDur", 8),
   warningTime     |-> GetPref(store, "warnTime", 300),
   repeatCount     |-> GetPref(store, "repeatCnt", 3),
   repeatInterval  |-> GetPref(store, "repeatInt", 2),
   enableWarning   |-> GetPref(store, "enableWarn", TRUE),
   enableRepeating |-> GetPref(store, "enableRep", TRUE)]

loadAlarmConfig(store) ==
  [testDuration    |-> constrain(GetPref(store, "testDur", 3), 1, 30),
   warningDuration |-> constrain(GetPref(store, "warnDur", 2), 1, 30),
   timeupDuration  |-> constrain(GetPref(store, "timeupDur", 8), 1, 60),
   warningTime     |-> constrain(GetPref(store, "warnTime", 300), 30, 1800),
   repeatCount     |-> constrain(GetPref(store, "repeatCnt", 3), 1, 10),
   repeatInterval  |-> constrain(GetPref(store, "repeatInt", 2), 1, 10),
   enableWarning   |-> GetPref(store, "enableWarn", TRUE),
   enableRepeating |-> GetPref(store, "enableRep", TRUE)]

\* variant: the repeat interval is not written to the store
saveAlarmConfig_SkipsInterval(cfg) ==
  [testDur |-> cfg.testDuration, warnDur |-> cfg.warningDuration,
   timeupDur |-> cfg.timeupDuration, warnTime |-> cfg.warningTime,
   repeatCnt |-> cfg.repeatCount,
   enableWarn |-> cfg.enableWarning, enableRep |-> cfg.enableRepeating]

saveAlarmConfig(cfg) ==
  [testDur |-> cfg.testDuration, warnDur |-> cfg.warningDuration,
   timeupDur |-> cfg.timeupDuration, warnTime |-> cfg.warningTime,
   repeatCnt |-> cfg.repeatCount, repeatInt |-> cfg.repeatInterval,
   enableWarn |-> cfg.enableWarning, enableRep |-> cfg.enableRepeating]

\* doc[key] | def of ArduinoJson: the member, or the default when absent
DocOr(doc, key, def) == IF key \in DOMAIN doc THEN doc[key] ELSE def

\* the configuration handleSaveConfig computes from a parsed JSON document
ConfigFromDoc(doc) ==
  [testDuration    |-> constrain(DocOr(doc, "testDuration", 3), 1, 30),
   warningDuration |-> constrain(DocOr(doc, "warningDuration", 2), 1, 30),
   timeupDuration  |-> constrain(DocOr(doc, "timeupDuration", 8), 1, 60),
   warningTime     |-> constrain(DocOr(doc, "warningTime", 300), 30, 1800),
   repeatCount     |-> constrain(DocOr(doc, "repeatCount", 3), 1, 10),
   repeatInterval  |-> constrain(DocOr(doc, "repeatInterval", 2), 1, 10),
   enableWarning   |-> DocOr(doc, "enableWarning", TRUE),
   enableRepeating |-> DocOr(doc, "enableRepeating", TRUE)]

\* ------------------------------------------------------------ inputs
\* values of the "lap" argument: two valid fields and both invalid sides
Laps == {-1, 0, 3, 4}

\* values of the "durasi" argument
Durations == {-5, 0, 1, 31, 14400, 14401}

\* JSON bodies posted to /save-config
Docs ==
  { [warningTime |-> 5, testDuration |-> 1, warningDuration |-> 1,
     timeupDuration |-> 2, repeatCount |-> 2, repeatInterval |-> 1],
    [enableWarning |-> FALSE, enableRepeating |-> FALSE, repeatCount |-> 99] }

\* contents of the Preferences namespace at boot: empty (first boot), or
\* holding values outside the valid ranges with some keys absent
StoredPrefs ==
  { <<>>,
    [testDur |-> 0, warnDur |-> -3, timeupDur |-> -1, warnTime |-> 1801,
     repeatCnt |-> 0, enableWarn |-> TRUE] }

\* values of millis() at the first modelled iteration
BootClocks == { <<0, 0>>, <<WrapSec - 3, 796>> }

\* time one loop() iteration takes, in milliseconds
Deltas == {1500}

\* ------------------------------------------------------------ initial state
IdleField ==
  [startTime |-> U32Zero, duration |-> 0, isRunning |-> FALSE,
   isFinished |-> FALSE, warningTriggered |-> FALSE]

IdleAlarm ==
  [active |-> FALSE, startTime |-> U32Zero, type |-> 0, currentRepeat |-> 0,
   relayOn |-> FALSE, lastToggle |-> U32Zero]

Init ==
  /\ now \in BootClocks
  /\ lastOverflowCheck = now
  /\ fields = [i \in Channels |-> IdleField]
  /\ prefs \in StoredPrefs
  /\ alarmConfig = loadAlarmConfig(prefs)
  /\ alarmStates = [i \in Channels |-> IdleAlarm]
  /\ relay = [i \in Channels |-> FALSE]
  /\ pc = "handle"
  /\ resp = 0
  /\ uptime = 0

\* ------------------------------------------------------------ alarm sequencer
\* st is the record [fields, alarms, relay] the loops below thread through
\* variant: the new sequence is installed without switching the relay off
startAlarmSequence_NoRelayOff(st, fieldIndex, durationType) ==
  IF ~validateFieldIndex(fieldIndex) THEN st
  ELSE IF ~validateAlarmType(durationType) THEN st
  ELSE [st EXCEPT
          !.alarms[fieldIndex] =
             [active |-> TRUE, startTime |-> now, type |-> durationType,
              currentRepeat |-> 0, relayOn |-> FALSE, lastToggle |-> now]]

startAlarmSequence(st, fieldIndex, durationType) ==
  IF ~validateFieldIndex(fieldIndex) THEN st
  ELSE IF ~validateAlarmType(durationType) THEN st
  ELSE [st EXCEPT
          !.alarms[fieldIndex] =
             [active |-> TRUE, startTime |-> now, type |-> durationType,
              currentRepeat |-> 0, relayOn |-> FALSE, lastToggle |-> now],
          !.relay[fieldIndex] = FALSE]

\* variant: a Warning sequence repeats repeatCount times, like a TimeUp one
AlarmParams_WarningUsesCount(cfg, type) ==
  CASE type = 0 -> [duration |-> cfg.testDuration * 1000, maxRepeats |-> 1,
                    interval |-> 0]
    [] type = 1 -> [duration |-> cfg.warningDuration * 1000,
                    maxRepeats |-> IF cfg.enableRepeating THEN cfg.repeatCount
                                                         ELSE 1,
                    interval |-> cfg.repeatInterval * 1000]
    [] type = 2 -> [duration |-> cfg.timeupDuration * 1000,
                    maxRepeats |-> IF cfg.enableRepeating THEN cfg.repeatCount
                                                         ELSE 1,
                    interval |-> cfg.repeatInterval * 1000]

\* the switch of processAlarms: duration, maxRepeats, interval in milliseconds
AlarmParams(cfg, type) ==
  CASE type = 0 -> [duration |-> cfg.testDuration * 1000, maxRepeats |-> 1,
                    interval |-> 0]
    [] type = 1 -> [duration |-> cfg.warningDuration * 1000,
                    maxRepeats |-> IF cfg.enableRepeating THEN 2 ELSE 1,
                    interval |-> cfg.repeatInterval * 1000]
    [] type = 2 -> [duration |-> cfg.timeupDuration * 1000,
                    maxRepeats |-> IF cfg.enableRepeating THEN cfg.repeatCount
                                                         ELSE 1,
                    interval |-> cfg.repeatInterval * 1000]

\* variant: the last pulse is followed by an interval as well
totalDuration_TrailingGap(p) == p.maxRepeats * (p.duration + p.interval)

totalDuration(p) == p.maxRepeats * p.duration + (p.maxRepeats - 1) * p.interval

\* variant: a completed sequence is deactivated with the relay left as it is
ProcessActive_NoFinalOff(st, i) ==
  LET a == st.alarms[i]
      p == AlarmParams(alarmConfig, a.type)
      elapsed == SubU32(now, a.startTime)
  IN IF GeMs(elapsed, totalDuration(p))
     THEN [st EXCEPT !.alarms[i].active = FALSE]
     ELSE LET cycleTime == p.duration + p.interval
              currentCycle == ToMs(elapsed) \div cycleTime
              cycleElapsed == ToMs(elapsed) % cycleTime
          IN IF currentCycle < p.maxRepeats
             THEN IF cycleElapsed < p.duration
                  THEN IF ~a.relayOn
                       THEN [st EXCEPT !.relay[i] = TRUE,
                                       !.alarms[i].relayOn = TRUE]
                       ELSE st
                  ELSE IF a.relayOn
                       THEN [st EXCEPT !.relay[i] = FALSE,
                                       !.alarms[i].relayOn = FALSE]
                       ELSE st
             ELSE st

\* the body of processAlarms' loop for field i with an active, known-type alarm
ProcessActive(st, i) ==
  LET a == st.alarms[i]
      p == AlarmParams(alarmConfig, a.type)
      elapsed == SubU32(now, a.startTime)
  IN IF GeMs(elapsed, totalDuration(p))
     THEN [st EXCEPT !.alarms[i].active = FALSE, !.relay[i] = FALSE]
     ELSE LET cycleTime == p.duration + p.interval
              currentCycle == ToMs(elapsed) \div cycleTime
              cycleElapsed == ToMs(elapsed) % cycleTime
          IN IF currentCycle < p.maxRepeats
             THEN IF cycleElapsed < p.duration
                  THEN IF ~a.relayOn
                       THEN [st EXCEPT !.relay[i] = TRUE,
                                       !.alarms[i].relayOn = TRUE]
                       ELSE st
                  ELSE IF a.relayOn
                       THEN [st EXCEPT !.relay[i] = FALSE,
                                       !.alarms[i].relayOn = FALSE]
                       ELSE st
             ELSE st

ProcessField(st, i) ==
  IF ~st.alarms[i].active THEN st
  ELSE IF ~validateAlarmType(st.alarms[i].type)
       THEN [st EXCEPT !.alarms[i].active = FALSE]
       ELSE ProcessActive(st, i)

RECURSIVE processAlarmsFrom(_, _)
processAlarmsFrom(st, i) ==
  IF i >= NumFields THEN st ELSE processAlarmsFrom(ProcessField(st, i), i + 1)

\* ------------------------------------------------------------ timers
\* variant: the overflow block leaves every startTime as it was
Rebaseline_Skip(fs) == fs

\* the overflow block of checkTimers
Rebaseline(fs) ==
  IF LtU32(now, lastOverflowCheck)
  THEN [i \in Channels |->
          IF fs[i].isRunning THEN [fs[i] EXCEPT !.startTime = now] ELSE fs[i]]
  ELSE fs

\* variant: the warning block does not test the warningTriggered latch
CheckWarning_NoLatch(st, i, remaining) ==
  IF /\ alarmConfig.enableWarning
     /\ remaining <= alarmConfig.warningTime
     /\ remaining > 0
  THEN startAlarmSequence([st EXCEPT !.fields[i].warningTriggered = TRUE], i, 1)
  ELSE st

\* variant: the warning block does not test remaining > 0
CheckWarning_AtZero(st, i, remaining) ==
  IF /\ alarmConfig.enableWarning
     /\ ~st.fields[i].warningTriggered
     /\ remaining <= alarmConfig.warningTime
  THEN startAlarmSequence([st EXCEPT !.fields[i].warningTriggered = TRUE], i, 1)
  ELSE st

\* the warning block of checkTimers' loop
CheckWarning(st, i, remaining) ==
  IF /\ alarmConfig.enableWarning
     /\ ~st.fields[i].warningTriggered
     /\ remaining <= alarmConfig.warningTime
     /\ remaining > 0
  THEN startAlarmSequence([st EXCEPT !.fields[i].warningTriggered = TRUE], i, 1)
  ELSE st

\* variant: the time-up block marks the field finished and starts no alarm
CheckTimeUp_NoAlarm(st, i, elapsed) ==
  IF elapsed >= st.fields[i].duration
  THEN [st EXCEPT !.fields[i].isRunning = FALSE, !.fields[i].isFinished = TRUE]
  ELSE st

\* variant: the time-up block sets isFinished and leaves isRunning set
CheckTimeUp_KeepsRunning(st, i, elapsed) ==
  IF elapsed >= st.fields[i].duration
  THEN startAlarmSequence([st EXCEPT !.fields[i].isFinished = TRUE], i, 2)
  ELSE st

\* variant: the time-up block also clears the warningTriggered latch
CheckTimeUp_ClearsLatch(st, i, elapsed) ==
  IF elapsed >= st.fields[i].duration
  THEN startAlarmSequence(
         [st EXCEPT !.fields[i].isRunning = FALSE,
                    !.fields[i].isFinished = TRUE,
                    !.fields[i].warningTriggered = FALSE], i, 2)
  ELSE st

\* variant: the time-up block stops the field and does not set isFinished
CheckTimeUp_ForgetsFinished(st, i, elapsed) ==
  IF elapsed >= st.fields[i].duration
  THEN startAlarmSequence([st EXCEPT !.fields[i].isRunning = FALSE], i, 2)
  ELSE st

\* the time-up block of checkTimers' loop
CheckTimeUp(st, i, elapsed) ==
  IF elapsed >= st.fields[i].duration
  THEN startAlarmSequence(
         [st EXCEPT !.fields[i].isRunning = FALSE,
                    !.fields[i].isFinished = TRUE], i, 2)
  ELSE st

\* variant: the runaway guard marks the field finished and leaves isRunning
CheckField_GuardKeepsRunning(st, i) ==
  LET f == st.fields[i]
  IN IF f.isRunning /\ ~f.isFinished
     THEN LET elapsed == DivThousand(SubU32(now, f.startTime))
          IN IF elapsed > f.duration + GracePeriod
             THEN [st EXCEPT !.fields[i].isFinished = TRUE]
             ELSE LET remaining == IF elapsed >= f.duration THEN 0
                                   ELSE f.duration - elapsed
                  IN CheckTimeUp(CheckWarning(st, i, remaining), i, elapsed)
     ELSE st

\* variant: the time-up block fires one second early
CheckField_EarlyTimeUp(st, i) ==
  LET f == st.fields[i]
  IN IF f.isRunning /\ ~f.isFinished
     THEN LET elapsed == DivThousand(SubU32(now, f.startTime))
          IN IF elapsed > f.duration + GracePeriod
             THEN [st EXCEPT !.fields[i].isRunning = FALSE,
                             !.fields[i].isFinished = TRUE]
             ELSE LET remaining == IF elapsed >= f.duration THEN 0
                                   ELSE f.duration - elapsed
                  IN CheckTimeUp(CheckWarning(st, i, remaining), i,
                                 elapsed + 1)
     ELSE st

\* the body of checkTimers' second loop for field i
CheckField(st, i) ==
  LET f == st.fields[i]
  IN IF f.isRunning /\ ~f.isFinished
     THEN LET elapsed == DivThousand(SubU32(now, f.startTime))
          IN IF elapsed > f.duration + GracePeriod
             THEN [st EXCEPT !.fields[i].isRunning = FALSE,
                             !.fields[i].isFinished = TRUE]
             ELSE LET remaining == IF elapsed >= f.duration THEN 0
                                   ELSE f.duration - elapsed
                  IN CheckTimeUp(CheckWarning(st, i, remaining), i, elapsed)
     ELSE st

RECURSIVE checkTimersFrom(_, _)
checkTimersFrom(st, i) ==
  IF i >= NumFields THEN st ELSE checkTimersFrom(CheckField(st, i), i + 1)

\* ------------------------------------------------------------ status
\* remaining seconds handleStatus reports for a running field: the unsigned
\* difference duration - elapsed read as a long, floored at 0
StatusRemaining(f, t) ==
  LET elapsed == DivThousand(SubU32(t, f.startTime))
      remaining == f.duration - elapsed
  IN IF remaining <= 0 THEN 0 ELSE remaining

\* getStatusClass for field record f at clock value t
getStatusClass(f, cfg, t) ==
  IF f.isFinished THEN "finished"
  ELSE IF f.isRunning
       THEN LET elapsed == DivThousand(SubU32(t, f.startTime))
                remaining == IF elapsed >= f.duration THEN 0
                             ELSE f.duration - elapsed
            IN IF /\ cfg.enableWarning
                  /\ remaining <= cfg.warningTime
                  /\ remaining > 0
               THEN "warning" ELSE "running"
       ELSE "idle"

\* variant: the warning test of handleStatus lacks remaining > 0
handleStatus_WarningAtZero(f, cfg, t) ==
  IF f.isFinished THEN [statusClass |-> "finished", remaining |-> 0]
  ELSE IF f.isRunning
       THEN [statusClass |->
               IF /\ cfg.enableWarning
                  /\ StatusRemaining(f, t) <= cfg.warningTime
               THEN "warning" ELSE "running",
             remaining |-> StatusRemaining(f, t)]
       ELSE [statusClass |-> "idle", remaining |-> -1]

\* the object handleStatus builds for one field at clock value t; remaining is
\* the number of seconds shown in timeRemaining, -1 standing for "--:--:--"
handleStatus(f, cfg, t) ==
  IF f.isFinished THEN [statusClass |-> "finished", remaining |-> 0]
  ELSE IF f.isRunning
       THEN [statusClass |->
               IF /\ cfg.enableWarning
                  /\ StatusRemaining(f, t) <= cfg.warningTime
                  /\ StatusRemaining(f, t) > 0
               THEN "warning" ELSE "running",
             remaining |-> StatusRemaining(f, t)]
       ELSE [statusClass |-> "idle", remaining |-> -1]

\* ------------------------------------------------------------ loop()
Cur == [fields |-> fields, alarms |-> alarmStates, relay |-> relay]

Install(st) ==
  /\ fields' = st.fields
  /\ alarmStates' = st.alarms
  /\ relay' = st.relay

\* duration <= 0 || duration > 14400 on the unsigned long read from "durasi"
\* (a negative argument converts to a value above 2^31)
\* variant: the upper limit of the duration is not checked
InvalidDuration_NoUpperLimit(durasi) == durasi <= 0

InvalidDuration(durasi) == durasi <= 0 \/ durasi > MaxDuration

\* variant: starting a field also cancels its alarm sequence
StartField_CancelsAlarm(st, fieldIndex, durasi) ==
  [st EXCEPT !.fields[fieldIndex] =
     [startTime |-> now, duration |-> durasi, isRunning |-> TRUE,
      isFinished |-> FALSE, warningTriggered |-> FALSE],
             !.alarms[fieldIndex].active = FALSE,
             !.relay[fieldIndex] = FALSE]

\* variant: starting a field leaves its isFinished flag as it was
StartField_KeepsFinished(st, fieldIndex, durasi) ==
  [st EXCEPT !.fields[fieldIndex].startTime = now,
             !.fields[fieldIndex].duration = durasi,
             !.fields[fieldIndex].isRunning = TRUE,
             !.fields[fieldIndex].warningTriggered = FALSE]

StartField(st, fieldIndex, durasi) ==
  [st EXCEPT !.fields[fieldIndex] =
     [startTime |-> now, duration |-> durasi, isRunning |-> TRUE,
      isFinished |-> FALSE, warningTriggered |-> FALSE]]

\* variant: stopping a field resets the timer and leaves the alarm running
StopField_KeepsAlarm(st, fieldIndex) ==
  [st EXCEPT !.fields[fieldIndex].isRunning = FALSE,
             !.fields[fieldIndex].isFinished = FALSE,
             !.fields[fieldIndex].duration = 0,
             !.fields[fieldIndex].warningTriggered = FALSE]

\* variant: stopping a field deactivates its alarm and leaves the relay as is
StopField_NoRelayOff(st, fieldIndex) ==
  [st EXCEPT !.fields[fieldIndex].isRunning = FALSE,
             !.fields[fieldIndex].isFinished = FALSE,
             !.fields[fieldIndex].duration = 0,
             !.fields[fieldIndex].warningTriggered = FALSE,
             !.alarms[fieldIndex].active = FALSE]

StopField(st, fieldIndex) ==
  [st EXCEPT !.fields[fieldIndex].isRunning = FALSE,
             !.fields[fieldIndex].isFinished = FALSE,
             !.fields[fieldIndex].duration = 0,
             !.fields[fieldIndex].warningTriggered = FALSE,
             !.alarms[fieldIndex].active = FALSE,
             !.relay[fieldIndex] = FALSE]

\* server.handleClient() with no client waiting
NoClient ==
  /\ pc = "handle"
  /\ pc' = "check"
  /\ UNCHANGED <<now, lastOverflowCheck, fields, alarmConfig, alarmStates,
                 relay, prefs, resp, uptime>>

HandleStart(hasArgs, lap, durasi) ==
  /\ pc = "handle"
  /\ uptime <= MaxReqUptime
  /\ pc' = "check"
  /\ IF ~hasArgs \/ ~validateFieldIndex(lap) \/ InvalidDuration(durasi)
     THEN /\ resp' = 400
          /\ UNCHANGED <<fields, alarmStates, relay>>
     ELSE /\ resp' = 200
          /\ Install(StartField(Cur, lap, durasi))
  /\ UNCHANGED <<now, lastOverflowCheck, alarmConfig, prefs, uptime>>

HandleStop(hasArg, lap) ==
  /\ pc = "handle"
  /\ uptime <= MaxReqUptime
  /\ pc' = "check"
  /\ IF ~hasArg \/ ~validateFieldIndex(lap)
     THEN /\ resp' = 400
          /\ UNCHANGED <<fields, alarmStates, relay>>
     ELSE /\ resp' = 200
          /\ Install(StopField(Cur, lap))
  /\ UNCHANGED <<now, lastOverflowCheck, alarmConfig, prefs, uptime>>

HandleAlarm(hasArg, lap) ==
  /\ pc = "handle"
  /\ uptime <= MaxReqUptime
  /\ pc' = "check"
  /\ IF ~hasArg \/ ~validateFieldIndex(lap)
     THEN /\ resp' = 400
          /\ UNCHANGED <<fields, alarmStates, relay>>
     ELSE /\ resp' = 200
          /\ Install(startAlarmSequence(Cur, lap, 0))
  /\ UNCHANGED <<now, lastOverflowCheck, alarmConfig, prefs, uptime>>

HandleSaveConfig(hasPlain, parses, doc) ==
  /\ pc = "handle"
  /\ uptime <= MaxReqUptime
  /\ pc' = "check"
  /\ IF ~hasPlain \/ ~parses
     THEN /\ resp' = 400
          /\ UNCHANGED <<alarmConfig, prefs>>
     ELSE /\ resp' = 200
          /\ alarmConfig' = ConfigFromDoc(doc)
          /\ prefs' = saveAlarmConfig(ConfigFromDoc(doc))
  /\ UNCHANGED <<now, lastOverflowCheck, fields, alarmStates, relay, uptime>>

\* the /status request: the document of handleStatus(fields[i], ...) for
\* every field is sent with code 200
HandleStatus ==
  /\ pc = "handle"
  /\ uptime <= MaxReqUptime
  /\ pc' = "check"
  /\ resp' = 200
  /\ UNCHANGED <<now, lastOverflowCheck, fields, alarmConfig, alarmStates,
                 relay, prefs, uptime>>

CheckTimers ==
  /\ pc = "check"
  /\ pc' = "process"
  /\ lastOverflowCheck' = now
  /\ Install(checkTimersFrom([Cur EXCEPT !.fields = Rebaseline(fields)], 0))
  /\ UNCHANGED <<now, alarmConfig, prefs, resp, uptime>>

ProcessAlarms ==
  /\ pc = "process"
  /\ pc' = "delay"
  /\ Install(processAlarmsFrom(Cur, 0))
  /\ UNCHANGED <<now, lastOverflowCheck, alarmConfig, prefs, resp, uptime>>

\* the rest of the iteration: the clock advances by the time it took
Delay(d) ==
  /\ pc = "delay"
  /\ uptime + d <= MaxUptime
  /\ pc' = "handle"
  /\ now' = AddMs(now, d)
  /\ uptime' = uptime + d
  /\ UNCHANGED <<lastOverflowCheck, fields, alarmConfig, alarmStates, relay,
                 prefs, resp>>

\* an iteration that blocks for StallMs (no watchdog is armed when
\* esp_task_wdt_init fails in setup)
Stall ==
  /\ pc = "delay"
  /\ uptime <= MaxStallUptime
  /\ pc' = "handle"
  /\ now' = AddMs(now, StallMs)
  /\ uptime' = uptime + StallMs
  /\ UNCHANGED <<lastOverflowCheck, fields, alarmConfig, alarmStates, relay,
                 prefs, resp>>

Next ==
  \/ NoClient
  \/ \E hasArgs \in BOOLEAN, lap \in Laps, durasi \in Durations :
       HandleStart(hasArgs, lap, durasi)
  \/ \E hasArg \in BOOLEAN, lap \in Laps : HandleStop(hasArg, lap)
  \/ \E hasArg \in BOOLEAN, lap \in Laps : HandleAlarm(hasArg, lap)
  \/ \E hasPlain \in BOOLEAN, parses \in BOOLEAN, doc \in Docs :
       HandleSaveConfig(hasPlain, parses, doc)
  \/ HandleStatus
  \/ CheckTimers
  \/ ProcessAlarms
  \/ \E d \in Deltas : Delay(d)
  \/ Stall

Spec == Init /\ [][Next]_vars

\* loop() with requests arriving in its first LiveReqUptime milliseconds only
\* and every iteration taking its regular time.
\* loop() never blocks: handleClient, checkTimers, processAlarms and the
\* delay each return, so each step of the iteration is weakly fair.
NextLive ==
  \/ NoClient
  \/ /\ uptime <= LiveReqUptime
     /\ \E hasArgs \in BOOLEAN, lap \in Laps, durasi \in Durations :
          HandleStart(hasArgs, lap, durasi)
  \/ /\ uptime <= LiveReqUptime
     /\ \E hasArg \in BOOLEAN, lap \in Laps : HandleStop(hasArg, lap)
  \/ /\ uptime <= LiveReqUptime
     /\ \E hasArg \in BOOLEAN, lap \in Laps : HandleAlarm(hasArg, lap)
  \/ /\ uptime <= LiveReqUptime
     /\ \E hasPlain \in BOOLEAN, parses \in BOOLEAN, doc \in Docs :
          HandleSaveConfig(hasPlain, parses, doc)
  \/ /\ uptime <= LiveReqUptime
     /\ HandleStatus
  \/ CheckTimers
  \/ ProcessAlarms
  \/ \E d \in Deltas : Delay(d)

SpecLive ==
  /\ Init
  /\ [][NextLive]_vars
  /\ WF_vars(NoClient)
  /\ WF_vars(CheckTimers)
  /\ WF_vars(ProcessAlarms)
  /\ WF_vars(\E d \in Deltas : Delay(d))

\* the rest of the iteration, with no horizon while a timer is running: the
\* clock keeps advancing until every run has ended (uptime stops counting at
\* MaxUptime)
DelayRun(d) ==
  /\ pc = "delay"
  /\ \/ uptime + d <= MaxUptime
     \/ \E c \in Channels : fields[c].isRunning
  /\ pc' = "handle"
  /\ now' = AddMs(now, d)
  /\ uptime' = IF uptime + d <= MaxUptime THEN uptime + d ELSE uptime
  /\ UNCHANGED <<lastOverflowCheck, fields, alarmConfig, alarmStates, relay,
                 prefs, resp>>

\* loop() with requests arriving in its first LiveReqUptime milliseconds
\* only, so that a run started then is never stopped or restarted, with runs
\* of at most MaxRunDuration seconds, and with the loop iterating for as long
\* as a timer is running
NextRun ==
  \/ NoClient
  \/ /\ uptime <= LiveReqUptime
     /\ \E hasArgs \in BOOLEAN, lap \in Laps, durasi \in Durations :
          durasi <= MaxRunDuration /\ HandleStart(hasArgs, lap, durasi)
  \/ /\ uptime <= LiveReqUptime
     /\ \E hasArg \in BOOLEAN, lap \in Laps : HandleStop(hasArg, lap)
  \/ /\ uptime <= LiveReqUptime
     /\ \E hasArg \in BOOLEAN, lap \in Laps : HandleAlarm(hasArg, lap)
  \/ /\ uptime <= LiveReqUptime
     /\ \E hasPlain \in BOOLEAN, parses \in BOOLEAN, doc \in Docs :
          HandleSaveConfig(hasPlain, parses, doc)
  \/ /\ uptime <= LiveReqUptime
     /\ HandleStatus
  \/ CheckTimers
  \/ ProcessAlarms
  \/ \E d \in Deltas : DelayRun(d)

SpecRun ==
  /\ Init
  /\ [][NextRun]_vars
  /\ WF_vars(NoClient)
  /\ WF_vars(CheckTimers)
  /\ WF_vars(ProcessAlarms)
  /\ WF_vars(\E d \in Deltas : DelayRun(d))

\* ------------------------------------------------------------ properties
\* a sequence of the given kind as startAlarmSequence leaves it at clock now
FreshAlarm(kind) ==
  [active |-> TRUE, startTime |-> now, type |-> kind, currentRepeat |-> 0,
   relayOn |-> FALSE, lastToggle |-> now]

\* whole seconds a tick at clock t counts for field record f
ElapsedSec(f, t) == DivThousand(SubU32(t, f.startTime))

\* remaining = max(0, duration - elapsed)
RemainingSec(f, t) ==
  IF ElapsedSec(f, t) >= f.duration THEN 0 ELSE f.duration - ElapsedSec(f, t)

\* a successful /start on field c
StartOk(c) == \E d \in Durations : HandleStart(TRUE, c, d) /\ resp' = 200

\* C1 as stated: whenever a tick (checkTimers) moves a channel from running to
\* finished, the channel's alarm sequence is active with kind TimeUp after it.
C1_FinishAlwaysStartsTimeUp ==
  [][\A c \in Channels :
       (pc = "check" /\ fields[c].isRunning /\ fields'[c].isFinished)
         => (alarmStates'[c].active /\ alarmStates'[c].type = 2)]_vars

\* C1 amended: a tick that moves a running channel to finished with elapsed at
\* most duration + 60 seconds starts a TimeUp sequence on it in the same tick
\* (active, kind TimeUp, started at the tick's clock value, output OFF); a
\* tick that finishes it with elapsed above duration + 60 (the runaway guard)
\* leaves the channel's alarm sequence and output as they were.
C1_TimeUpStartsAlarm ==
  [][\A c \in Channels :
       (pc = "check" /\ fields[c].isRunning /\ fields'[c].isFinished)
         => IF ElapsedSec(fields'[c], now) <= fields[c].duration + GracePeriod
            THEN /\ alarmStates'[c] = FreshAlarm(2)
                 /\ ~relay'[c]
                 /\ ~fields'[c].isRunning
            ELSE /\ alarmStates'[c] = alarmStates[c]
                 /\ relay'[c] = relay[c]
                 /\ ~fields'[c].isRunning]_vars

\* C1 witness: a tick has just finished a channel and started its TimeUp
\* sequence.
C1_Witness ==
  \E c \in Channels :
    /\ pc = "process"
    /\ fields[c].isFinished
    /\ ~fields[c].isRunning
    /\ alarmStates[c] = FreshAlarm(2)

\* C2: the warning alarm fires exactly once per run.  A tick starts a Warning
\* sequence on a running channel exactly when it observes enableWarning, the
\* latch warningTriggered clear and 0 < remaining <= warningTime; it sets the
\* latch in the same tick; and the latch is cleared only by a successful
\* /start or /stop of that channel, so no later tick of the run starts a
\* second Warning sequence, whatever test alarms or profile updates occur.
C2_WarningOncePerRun ==
  [][\A c \in Channels :
       /\ (pc = "check" /\ fields[c].isRunning /\ ~fields[c].isFinished)
            => LET rem == RemainingSec(fields'[c], now)
                   due == /\ alarmConfig.enableWarning
                          /\ ~fields[c].warningTriggered
                          /\ rem > 0
                          /\ rem <= alarmConfig.warningTime
                   started == /\ alarmStates'[c] = FreshAlarm(1)
                              /\ alarmStates'[c] # alarmStates[c]
               IN /\ due <=> started
                  /\ due => fields'[c].warningTriggered
                  /\ fields[c].warningTriggered => fields'[c].warningTriggered
       /\ (pc = "check" /\ ~(fields[c].isRunning /\ ~fields[c].isFinished))
            => (alarmStates'[c] = alarmStates[c] /\ fields'[c] = fields[c])
       /\ (fields[c].warningTriggered /\ ~fields'[c].warningTriggered)
            => (StartOk(c) \/ HandleStop(TRUE, c))
       /\ (/\ alarmStates'[c].type = 1
           /\ \/ alarmStates[c].type # 1
              \/ alarmStates'[c].startTime # alarmStates[c].startTime)
            => pc = "check"]_vars

\* C2 witness: a run whose warning did not fire at its first tick (remaining
\* was still above warningTime) has now fired it, with remaining inside the
\* window.
C2_Witness ==
  \E c \in Channels :
    /\ pc = "process"
    /\ fields[c].isRunning
    /\ fields[c].warningTriggered
    /\ fields[c].duration > alarmConfig.warningTime
    /\ alarmStates[c] = FreshAlarm(1)
    /\ RemainingSec(fields[c], now) > 0
    /\ RemainingSec(fields[c], now) <= alarmConfig.warningTime

\* pulse length, pulse count and gap (milliseconds) of a sequence of the given
\* kind under profile cfg, as the specification resolves them
PulseMs(cfg, kind) ==
  1000 * (CASE kind = 0 -> cfg.testDuration
            [] kind = 1 -> cfg.warningDuration
            [] kind = 2 -> cfg.timeupDuration)

PulseCount(cfg, kind) ==
  CASE kind = 0 -> 1
    [] kind = 1 -> IF cfg.enableRepeating THEN 2 ELSE 1
    [] kind = 2 -> IF cfg.enableRepeating THEN cfg.repeatCount ELSE 1

GapMs(cfg, kind) == IF kind = 0 THEN 0 ELSE 1000 * cfg.repeatInterval

TotalLengthMs(cfg, kind) ==
  PulseCount(cfg, kind) * PulseMs(cfg, kind)
    + (PulseCount(cfg, kind) - 1) * GapMs(cfg, kind)

\* the sequence of channel c has run for its total length or more
SeqOver(c) ==
  GeMs(SubU32(now, alarmStates[c].startTime),
       TotalLengthMs(alarmConfig, alarmStates[c].type))

\* the level the pulse train prescribes at sequence-elapsed time e (ms)
PulseOn(cfg, kind, e) ==
  /\ e < TotalLengthMs(cfg, kind)
  /\ e % (PulseMs(cfg, kind) + GapMs(cfg, kind)) < PulseMs(cfg, kind)

\* C3: after every processAlarms step the output of a channel with an active
\* sequence is ON iff e < totalLength and e mod (pulseDuration + interval) <
\* pulseDuration, e being the sequence-elapsed time at that step and the
\* parameters resolved from the sequence kind; a sequence is never left active
\* with e >= totalLength, and a channel without an active sequence is OFF.
\* For timeupDuration 8, repeatCount 3, repeatInterval 2 a TimeUp sequence is
\* ON in [0,8), OFF in [8,10), ON in [10,18), OFF in [18,20), ON in [20,28).
C3_PulseTrain ==
  pc = "delay" =>
    \A c \in Channels :
      IF alarmStates[c].active
      THEN /\ alarmStates[c].type \in 0 .. 2
           /\ ~SeqOver(c)
           /\ LET e == ToMs(SubU32(now, alarmStates[c].startTime))
              IN /\ relay[c] <=> PulseOn(alarmConfig, alarmStates[c].type, e)
                 /\ (/\ alarmStates[c].type = 2
                     /\ alarmConfig.enableRepeating
                     /\ alarmConfig.timeupDuration = 8
                     /\ alarmConfig.repeatCount = 3
                     /\ alarmConfig.repeatInterval = 2)
                      => /\ e < 28000
                         /\ relay[c] <=> \/ e < 8000
                                         \/ (10000 <= e /\ e < 18000)
                                         \/ 20000 <= e
      ELSE ~relay[c]

\* C3 witness: a TimeUp sequence under the 8/3/2 profile is in its third
\* pulse, between 20 and 28 seconds, with the output ON.
C3_Witness ==
  \E c \in Channels :
    /\ pc = "delay"
    /\ alarmStates[c].active
    /\ alarmStates[c].type = 2
    /\ alarmConfig = DefaultConfig
    /\ ToMs(SubU32(now, alarmStates[c].startTime)) >= 20000
    /\ relay[c]

\* C4 as stated: immediately after a successful /start on channel c the
\* channel has no active alarm sequence and its output is OFF.
C4_StartCancelsAlarm ==
  [][\A c \in Channels :
       StartOk(c) => (~alarmStates'[c].active /\ ~relay'[c])]_vars

\* C4 amended: a successful /start on channel c does not touch the alarm
\* sequencer: every channel's alarm sequence and output are exactly as before
\* the request, so a sequence that was active on c stays active.
C4_StartLeavesAlarm ==
  [][\A c \in Channels :
       StartOk(c) => (alarmStates' = alarmStates /\ relay' = relay)]_vars

\* C4 witness: a /start has just been applied to a channel whose earlier
\* sequence is still active with the output ON.
C4_Witness ==
  \E c \in Channels :
    /\ pc = "check"
    /\ resp = 200
    /\ fields[c].isRunning
    /\ fields[c].startTime = now
    /\ ~fields[c].warningTriggered
    /\ alarmStates[c].active
    /\ relay[c]

\* C5: a /stop with a valid channel, from any reachable state, leaves that
\* channel idle (duration 0, not running, not finished, warningTriggered
\* clear) with its alarm sequence inactive and its output OFF, changes no
\* other channel, and is idempotent: applying it again to the resulting state
\* yields exactly that state.
C5_StopIdleIdempotent ==
  [][\A c \in Channels :
       HandleStop(TRUE, c) =>
         /\ resp' = 200
         /\ fields'[c].duration = 0
         /\ ~fields'[c].isRunning
         /\ ~fields'[c].isFinished
         /\ ~fields'[c].warningTriggered
         /\ ~alarmStates'[c].active
         /\ ~relay'[c]
         /\ \A o \in Channels \ {c} :
              /\ fields'[o] = fields[o]
              /\ alarmStates'[o] = alarmStates[o]
              /\ relay'[o] = relay[o]
         /\ StopField(Cur', c) = Cur']_vars

\* C5 witness: a /stop has just idled a channel whose TimeUp sequence (8/3/2
\* profile) was inside its first pulse with the output ON.
C5_Witness ==
  \E c \in Channels :
    /\ pc = "check"
    /\ resp = 200
    /\ fields[c].duration = 0
    /\ ~fields[c].isRunning
    /\ ~alarmStates[c].active
    /\ ~relay[c]
    /\ alarmStates[c].relayOn
    /\ alarmStates[c].type = 2
    /\ alarmConfig = DefaultConfig
    /\ ~GeMs(SubU32(now, alarmStates[c].startTime), 8000)

\* C6: starting a sequence of any kind installs it with the output forced
\* OFF: right after a successful /alarm, and right after a tick that started
\* a Warning or TimeUp sequence, the channel's sequence is active, of the new
\* kind, with startTime = now and outputOn clear, and the relay is OFF
\* whatever sequence was active before; a relay only ever turns ON in a
\* processAlarms step.
C6_NewSequenceStartsOff ==
  [][\A c \in Channels :
       /\ HandleAlarm(TRUE, c) =>
            (alarmStates'[c] = FreshAlarm(0) /\ ~relay'[c] /\ resp' = 200)
       /\ (pc = "check" /\ alarmStates'[c] # alarmStates[c]) =>
            /\ alarmStates'[c] \in {FreshAlarm(1), FreshAlarm(2)}
            /\ ~relay'[c]
       /\ (pc = "check" /\ alarmStates'[c] = alarmStates[c]) =>
            relay'[c] = relay[c]
       /\ (relay'[c] /\ ~relay[c]) => pc = "process"]_vars

\* C6 witness: a Test request has just replaced a Warning sequence that was
\* started one iteration earlier (the run began 1.5 s ago and its warning has
\* fired); the channel now holds the fresh Test sequence with the output OFF.
C6_Witness ==
  \E c \in Channels :
    /\ pc = "check"
    /\ resp = 200
    /\ alarmStates[c] = FreshAlarm(0)
    /\ ~relay[c]
    /\ fields[c].isRunning
    /\ fields[c].warningTriggered
    /\ SubU32(now, fields[c].startTime) = <<1, 500>>

\* C7: immediately after a successful /start with duration d on channel c, a
\* status query at the same clock value reports remaining = d and a running
\* (not finished, not idle) channel, and warningTriggered is clear, whatever
\* the channel's state before the start.
C7_StartReportsFullDuration ==
  [][\A c \in Channels : \A d \in Durations :
       (HandleStart(TRUE, c, d) /\ d >= 1 /\ d <= MaxDuration) =>
         /\ resp' = 200
         /\ handleStatus(fields'[c], alarmConfig', now').remaining = d
         /\ handleStatus(fields'[c], alarmConfig', now').statusClass
              \in {"running", "warning"}
         /\ fields'[c].isRunning
         /\ ~fields'[c].isFinished
         /\ ~fields'[c].warningTriggered
         /\ fields'[c].duration = d]_vars

\* C7 witness: a /start has just been applied to a channel that had finished
\* (its TimeUp sequence is still active), and the channel is running again.
C7_Witness ==
  \E c \in Channels :
    /\ pc = "check"
    /\ resp = 200
    /\ fields[c].isRunning
    /\ ~fields[c].isFinished
    /\ fields[c].startTime = now
    /\ handleStatus(fields[c], alarmConfig, now).remaining = fields[c].duration
    /\ alarmStates[c].active
    /\ alarmStates[c].type = 2

\* C8: a rejected request is an atomic no-op.  /start with a missing
\* argument, a channel outside 0..3 or a duration outside 1..14400, and /stop
\* or /alarm with a missing argument or a channel outside 0..3, and
\* /save-config without a parsable body, answer 400; and every step that
\* answers 400 leaves all timers, alarm sequences, outputs, the profile and
\* the stored profile unchanged.  startAlarmSequence with an invalid channel
\* or kind changes nothing.
C8_RejectedIsNoOp ==
  [][/\ \A a \in BOOLEAN, lap \in Laps, d \in Durations :
          (/\ HandleStart(a, lap, d)
           /\ (~a \/ lap \notin Channels \/ d < 1 \/ d > 14400))
            => resp' = 400
     /\ \A a \in BOOLEAN, lap \in Laps :
          ((HandleStop(a, lap) \/ HandleAlarm(a, lap))
             /\ (~a \/ lap \notin Channels))
            => resp' = 400
     /\ (pc = "handle" /\ resp' = 400)
          => UNCHANGED <<fields, alarmStates, relay, alarmConfig, prefs,
                         lastOverflowCheck>>
     /\ \A lap \in Laps, kind \in {-1, 0, 1, 2, 3} :
          (lap \notin Channels \/ kind \notin 0 .. 2)
            => startAlarmSequence(Cur, lap, kind) = Cur]_vars

\* C8 witness: a request has just been rejected while one channel is running
\* and an alarm sequence is active with its output ON.
C8_Witness ==
  /\ pc = "check"
  /\ resp = 400
  /\ \E c \in Channels : fields[c].isRunning
  /\ \E c \in Channels : alarmStates[c].active /\ relay[c]

\* C9: overflow safety.  A tick that sees the clock below its previous
\* reading (a wrap) while a channel is running keeps that channel running and
\* not finished, re-baselines its startTime to the post-wrap clock value,
\* starts no TimeUp sequence on it, and the status query then reports
\* remaining = duration; and in every state, before or after the wrap, the
\* remaining time reported for a running channel lies in 0..duration.
C9_OverflowSafe ==
  [][/\ \A c \in Channels :
          (pc = "check" /\ LtU32(now, lastOverflowCheck) /\ fields[c].isRunning)
            => /\ fields'[c].isRunning
               /\ ~fields'[c].isFinished
               /\ fields'[c].startTime = now
               /\ fields'[c].duration = fields[c].duration
               /\ alarmStates'[c] # FreshAlarm(2)
               /\ handleStatus(fields'[c], alarmConfig', now').remaining
                    = fields[c].duration
     /\ \A c \in Channels :
          fields'[c].isRunning =>
            /\ handleStatus(fields'[c], alarmConfig', now').remaining >= 0
            /\ handleStatus(fields'[c], alarmConfig', now').remaining
                 <= fields'[c].duration
            /\ handleStatus(fields'[c], alarmConfig', now').statusClass
                 # "finished"]_vars

\* C9 witness: the tick after the wrap has re-baselined a channel whose run
\* began before the wrap (its Warning sequence carries a pre-wrap startTime).
C9_Witness ==
  \E c \in Channels :
    /\ pc = "process"
    /\ now[1] < 2
    /\ fields[c].isRunning
    /\ fields[c].startTime = now
    /\ fields[c].warningTriggered
    /\ alarmStates[c].type = 1
    /\ alarmStates[c].startTime[1] > IntMaxSec

\* C10: an active sequence ends when its total length has elapsed.  A
\* processAlarms step that finds an active sequence with elapsed >= totalLength
\* deactivates it and forces the output OFF, and one that finds elapsed <
\* totalLength keeps it active, so the first such step is the one that ends
\* it and no sequence is active with elapsed >= totalLength once processAlarms
\* has run at that clock value; a channel whose sequence is inactive has its
\* output OFF and keeps it OFF in every step that does not start a new
\* sequence on it (and a newly started sequence starts OFF).
C10_EndsAtTotalLength ==
  [][\A c \in Channels :
       /\ (pc = "process" /\ alarmStates[c].active /\ SeqOver(c))
            => (~alarmStates'[c].active /\ ~relay'[c])
       /\ (pc = "process" /\ alarmStates[c].active /\ ~SeqOver(c))
            => alarmStates'[c].active
       /\ (pc = "process" /\ ~alarmStates[c].active)
            => (alarmStates'[c] = alarmStates[c] /\ ~relay'[c])
       /\ ~alarmStates[c].active => ~relay[c]
       /\ ~alarmStates[c].active => ~relay'[c]
       /\ (alarmStates[c].active /\ ~alarmStates'[c].active)
            => \/ pc = "process" /\ SeqOver(c)
               \/ HandleStop(TRUE, c)]_vars

\* C10, liveness: with the loop running and the clock advancing, every active
\* sequence eventually is inactive with its output OFF.
C10_EventuallyOff ==
  \A c \in Channels :
    alarmStates[c].active ~> (~alarmStates[c].active /\ ~relay[c])

C10_SequenceEnds == C10_EndsAtTotalLength /\ C10_EventuallyOff

\* C10 witness: processAlarms has just ended a Warning sequence whose two
\* pulses and gap have elapsed: the sequence is inactive, the output is OFF
\* and the cached level still shows the last pulse.
C10_Witness ==
  \E c \in Channels :
    /\ pc = "delay"
    /\ ~alarmStates[c].active
    /\ ~relay[c]
    /\ alarmStates[c].relayOn
    /\ alarmStates[c].type = 1
    /\ SubU32(now, alarmStates[c].startTime)
         = <<TotalLengthMs(alarmConfig, 1) \div 1000, 0>>

\* the valid range of every numeric profile field
InRange(cfg) ==
  /\ cfg.testDuration \in 1 .. 30
  /\ cfg.warningDuration \in 1 .. 30
  /\ cfg.timeupDuration \in 1 .. 60
  /\ cfg.warningTime \in 30 .. 1800
  /\ cfg.repeatCount \in 1 .. 10
  /\ cfg.repeatInterval \in 1 .. 10

\* C11: in every reachable state (after the load at boot, whatever the store
\* held, and after any sequence of profile updates, whatever the candidates
\* held or left out) every numeric profile field is inside its valid range:
\* testDuration and warningDuration in 1..30, timeupDuration in 1..60,
\* warningTime in 30..1800, repeatCount and repeatInterval in 1..10; so every
\* tick computes with in-range values.
C11_ConfigInRange == InRange(alarmConfig)

\* C11 witness: the firmware booted from a store holding out-of-range values
\* (warnTime 1801, testDur 0), the load clamped them, and a tick has run with
\* the clamped profile.
C11_Witness ==
  /\ pc = "process"
  /\ "warnTime" \in DOMAIN prefs
  /\ prefs.warnTime = 1801
  /\ prefs.testDur = 0
  /\ alarmConfig.warningTime = 1800
  /\ alarmConfig.testDuration = 1

\* v limited to lo..hi
Clamp(v, lo, hi) ==
  LET capped == IF hi <= v THEN hi ELSE v
  IN IF lo >= capped THEN lo ELSE capped

\* values a candidate may carry for one numeric field
CandidateValues == {-7, 0, 1, 2, 5, 10, 11, 29, 30, 31, 60, 61, 99, 1800, 1801}

\* ConfigFromDoc clamps each numeric field of a one-field candidate
C12_FieldsClamp ==
  \A v \in CandidateValues :
     /\ ConfigFromDoc([testDuration |-> v]).testDuration = Clamp(v, 1, 30)
     /\ ConfigFromDoc([warningDuration |-> v]).warningDuration
          = Clamp(v, 1, 30)
     /\ ConfigFromDoc([timeupDuration |-> v]).timeupDuration
          = Clamp(v, 1, 60)
     /\ ConfigFromDoc([warningTime |-> v]).warningTime
          = Clamp(v, 30, 1800)
     /\ ConfigFromDoc([repeatCount |-> v]).repeatCount = Clamp(v, 1, 10)
     /\ ConfigFromDoc([repeatInterval |-> v]).repeatInterval
          = Clamp(v, 1, 10)

\* C12: a profile update with a well-formed candidate never fails (it answers
\* 200), every numeric field of the resulting active profile equals the
\* candidate's value clamped to the field's range (the default when the
\* candidate leaves the field out; warningTime 5 becomes 30), the store holds
\* exactly the resulting profile, a load of that store returns the same
\* profile, and submitting the resulting profile again changes nothing.
C12_UpdateClamps ==
  [][\A doc \in Docs :
       HandleSaveConfig(TRUE, TRUE, doc) =>
         /\ C12_FieldsClamp
         /\ resp' = 200
         /\ alarmConfig'.testDuration
              = Clamp(DocOr(doc, "testDuration", 3), 1, 30)
         /\ alarmConfig'.warningDuration
              = Clamp(DocOr(doc, "warningDuration", 2), 1, 30)
         /\ alarmConfig'.timeupDuration
              = Clamp(DocOr(doc, "timeupDuration", 8), 1, 60)
         /\ alarmConfig'.warningTime
              = Clamp(DocOr(doc, "warningTime", 300), 30, 1800)
         /\ alarmConfig'.repeatCount
              = Clamp(DocOr(doc, "repeatCount", 3), 1, 10)
         /\ alarmConfig'.repeatInterval
              = Clamp(DocOr(doc, "repeatInterval", 2), 1, 10)
         /\ alarmConfig'.enableWarning = DocOr(doc, "enableWarning", TRUE)
         /\ alarmConfig'.enableRepeating
              = DocOr(doc, "enableRepeating", TRUE)
         /\ (DocOr(doc, "warningTime", 300) = 5
               => (alarmConfig'.warningTime = 30 /\ prefs'.warnTime = 30))
         /\ prefs' =
              [testDur |-> alarmConfig'.testDuration,
               warnDur |-> alarmConfig'.warningDuration,
               timeupDur |-> alarmConfig'.timeupDuration,
               warnTime |-> alarmConfig'.warningTime,
               repeatCnt |-> alarmConfig'.repeatCount,
               repeatInt |-> alarmConfig'.repeatInterval,
               enableWarn |-> alarmConfig'.enableWarning,
               enableRep |-> alarmConfig'.enableRepeating]
         /\ loadAlarmConfig(prefs') = alarmConfig'
         /\ ConfigFromDoc(alarmConfig') = alarmConfig']_vars

\* C12 witness: the candidate with warningTime 5 and timeupDuration 2 has
\* just been applied: the active profile and the store both hold warningTime
\* 30, and loading the store gives the active profile.
C12_Witness ==
  /\ pc = "check"
  /\ resp = 200
  /\ alarmConfig.warningTime = 30
  /\ alarmConfig.timeupDuration = 2
  /\ prefs.warnTime = 30
  /\ loadAlarmConfig(prefs) = alarmConfig

\* whole seconds the tick at the current clock value counts for channel c:
\* the overflow check comes first and re-baselines a running channel
TickElapsed(c) ==
  IF LtU32(now, lastOverflowCheck) /\ fields[c].isRunning THEN 0
  ELSE ElapsedSec(fields[c], now)

\* C13: runaway-timer guard.  A tick that observes a channel running and not
\* finished with elapsed > duration + 60 seconds leaves it finished and not
\* running; and after every tick no channel is running with elapsed above its
\* duration (so none stays running past duration + 60).
C13_RunawayGuard ==
  [][\A c \in Channels :
       /\ (/\ pc = "check"
           /\ fields[c].isRunning
           /\ ~fields[c].isFinished
           /\ TickElapsed(c) > fields[c].duration + 60)
            => (fields'[c].isFinished /\ ~fields'[c].isRunning)
       /\ (pc = "check" /\ fields'[c].isRunning)
            => ElapsedSec(fields'[c], now) < fields'[c].duration]_vars

\* C13 witness: a tick has just force-finished a channel it saw more than 60
\* seconds past its duration; no TimeUp sequence was started for it.
C13_Witness ==
  \E c \in Channels :
    /\ pc = "process"
    /\ fields[c].isFinished
    /\ ~fields[c].isRunning
    /\ fields[c].duration > 0
    /\ ElapsedSec(fields[c], now) > fields[c].duration + 60
    /\ ~alarmStates[c].active

\* C14: monotonicity.  For a channel that stays running, with no start or
\* stop in between, the remaining time a status query reports at a later
\* clock value is never above the one reported at an earlier clock value, and
\* never below 0.  The two queries compared are the one served in an
\* iteration's handleClient (clock now, before that iteration's tick) and the
\* one served an iteration later (clock now + d, after that tick), and the
\* ones served before and after a delay.
C14_RemainingNonIncreasing ==
  [][\A c \in Channels :
       /\ \A d \in Deltas :
            (/\ pc = "check"
             /\ fields[c].isRunning
             /\ fields'[c].isRunning
             /\ LtU32(now, AddMs(now, d)))
              => /\ handleStatus(fields'[c], alarmConfig', AddMs(now, d)).remaining
                      <= handleStatus(fields[c], alarmConfig, now).remaining
                 /\ handleStatus(fields'[c], alarmConfig', AddMs(now, d)).remaining
                      >= 0
       /\ (/\ pc = "delay"
           /\ fields[c].isRunning
           /\ LtU32(now, now'))
            => /\ handleStatus(fields'[c], alarmConfig', now').remaining
                    <= handleStatus(fields[c], alarmConfig, now).remaining
               /\ handleStatus(fields'[c], alarmConfig', now').remaining >= 0]_vars

\* the status kind the specification assigns to field record f at clock t
StatusKind(f, cfg, t) ==
  CASE f.isFinished -> "finished"
    [] ~f.isFinished /\ f.isRunning
         /\ cfg.enableWarning
         /\ 0 < RemainingSec(f, t) /\ RemainingSec(f, t) <= cfg.warningTime
         -> "warning"
    [] ~f.isFinished /\ f.isRunning
         /\ ~(cfg.enableWarning
              /\ 0 < RemainingSec(f, t) /\ RemainingSec(f, t) <= cfg.warningTime)
         -> "running"
    [] ~f.isFinished /\ ~f.isRunning -> "idle"

\* C15, the mapping: in every reachable state the status of every channel is
\* exactly one of finished, warning, running, idle: finished iff isFinished;
\* otherwise, if isRunning, warning iff enableWarning and 0 < remaining <=
\* warningTime and running otherwise; otherwise idle; remaining is max(0,
\* duration - elapsed) for a running channel and 0 for a finished one.  Both
\* handleStatus and getStatusClass report that kind.
C15_Mapping ==
  \A c \in Channels :
    LET s == handleStatus(fields[c], alarmConfig, now)
    IN /\ s.statusClass = StatusKind(fields[c], alarmConfig, now)
       /\ getStatusClass(fields[c], alarmConfig, now)
            = StatusKind(fields[c], alarmConfig, now)
       /\ (s.statusClass = "finished" <=> fields[c].isFinished)
       /\ (fields[c].isFinished => s.remaining = 0)
       /\ (s.statusClass \in {"running", "warning"}
             => s.remaining = RemainingSec(fields[c], now))

\* C15: the mapping holds in every reachable state, and a status query
\* answers 200 and changes no timer, alarm sequence, output, profile or store.
C15_StatusMapping ==
  /\ []C15_Mapping
  /\ [][HandleStatus =>
          /\ resp' = 200
          /\ UNCHANGED <<fields, alarmStates, relay, alarmConfig, prefs,
                         lastOverflowCheck, now>>]_vars

\* C15 witness: a request has just been answered 200 while one channel is
\* finished, one is idle, and one is running with its time elapsed and the
\* tick still pending: it shows running with remaining 0, not warning.
C15_Witness ==
  /\ \E c \in Channels :
       handleStatus(fields[c], alarmConfig, now).statusClass = "finished"
  /\ \E c \in Channels :
       /\ handleStatus(fields[c], alarmConfig, now).statusClass = "running"
       /\ handleStatus(fields[c], alarmConfig, now).remaining = 0
  /\ \E c \in Channels :
       handleStatus(fields[c], alarmConfig, now).statusClass = "idle"
  /\ pc = "check"
  /\ resp = 200

\* C16: channel timer flags.  In every reachable state and for every channel
\* isRunning implies not isFinished and duration > 0; a tick that sets
\* isFinished leaves isRunning false; and isRunning turns from false to true
\* only in a successful /start of that channel, so a finished channel stays
\* not running until it is started again.
C16_Flags ==
  \A c \in Channels :
    fields[c].isRunning => (~fields[c].isFinished /\ fields[c].duration > 0)

C16_TimerFlags ==
  /\ []C16_Flags
  /\ [][\A c \in Channels :
          /\ (pc = "check" /\ ~fields[c].isFinished /\ fields'[c].isFinished)
               => ~fields'[c].isRunning
          /\ (~fields[c].isFinished /\ fields'[c].isFinished) => pc = "check"
          /\ (~fields[c].isRunning /\ fields'[c].isRunning) => StartOk(c)
          /\ (fields[c].isFinished /\ ~fields'[c].isFinished)
               => (StartOk(c) \/ HandleStop(TRUE, c))]_vars

\* C16 witness: a channel finished by a tick at least 1 second ago is still
\* finished and not running while requests for it arrive.
C16_Witness ==
  \E c \in Channels :
    /\ pc = "handle"
    /\ uptime <= MaxReqUptime
    /\ fields[c].isFinished
    /\ ~fields[c].isRunning
    /\ fields[c].duration > 0
    /\ alarmStates[c].type = 2
    /\ DivThousand(SubU32(now, alarmStates[c].startTime)) >= 1

\* the tick taken from the current state starts a Warning sequence on c
\* (this is the only place that sets the latch)
WarningStarts(c) ==
  pc = "check" /\ ~fields[c].warningTriggered /\ fields'[c].warningTriggered

\* the tick taken from the current state runs the time-up block on c
TimeUpStarts(c) ==
  /\ pc = "check"
  /\ fields[c].isRunning
  /\ fields'[c].isFinished
  /\ TickElapsed(c) <= fields[c].duration + 60

\* C17: same-tick warning and time-up.  A tick starts both a Warning and a
\* TimeUp sequence on one channel only if warningTime >= duration, and then
\* the TimeUp sequence is the one active at the end of the tick.  In the code
\* the two never start in one tick at all (the warning needs remaining > 0,
\* the time-up remaining = 0); a tick that starts the warning ends with the
\* Warning sequence active and the channel running, and a tick in which the
\* time is up ends with the TimeUp sequence active, whatever sequence was
\* active before it.
C17_SameTick ==
  [][\A c \in Channels :
       /\ (WarningStarts(c) /\ TimeUpStarts(c))
            => /\ alarmConfig.warningTime >= fields[c].duration
               /\ alarmStates'[c] = FreshAlarm(2)
       /\ ~(WarningStarts(c) /\ TimeUpStarts(c))
       /\ WarningStarts(c)
            => (alarmStates'[c] = FreshAlarm(1) /\ fields'[c].isRunning)
       /\ TimeUpStarts(c) => alarmStates'[c] = FreshAlarm(2)]_vars

\* C17 witness: degenerate durations (warningTime >= duration), warning
\* enabled and the latch still clear when the time is up: the tick has
\* started the TimeUp sequence only, and the latch is still clear.
C17_Witness ==
  \E c \in Channels :
    /\ pc = "process"
    /\ alarmConfig.enableWarning
    /\ alarmConfig.warningTime >= fields[c].duration
    /\ fields[c].duration > 0
    /\ fields[c].isFinished
    /\ ~fields[c].warningTriggered
    /\ alarmStates[c] = FreshAlarm(2)
    /\ ElapsedSec(fields[c], now) <= fields[c].duration + 60

\* C18 as stated: in every reachable state the cached flag relayOn of every
\* channel equals the level last written to the channel's relay.
C18_CachedEqualsOutput ==
  \A c \in Channels : alarmStates[c].relayOn <=> relay[c]

\* after a processAlarms step, the Warning sequences follow a train of
\* exactly n(cfg) pulses: a sequence is active only while its elapsed time e
\* is below n pulses and n - 1 gaps, and its output is ON iff e lies in one of
\* the n pulses
WarningTrain(n) ==
  pc = "delay" =>
    \A c \in Channels :
      (alarmStates[c].active /\ alarmStates[c].type = 1) =>
        LET e == ToMs(SubU32(now, alarmStates[c].startTime))
            pulse == 1000 * alarmConfig.warningDuration
            gap == 1000 * alarmConfig.repeatInterval
        IN /\ ~GeMs(SubU32(now, alarmStates[c].startTime),
                    n * pulse + (n - 1) * gap)
           /\ relay[c] <=>
                \E k \in 0 .. (n - 1) :
                  k * (pulse + gap) <= e /\ e < k * (pulse + gap) + pulse

\* C19 as stated: a Warning sequence emits min(repeatCount, 2) pulses with
\* enableRepeating (one pulse for repeatCount = 1) and 1 pulse without.
C19_WarningPulsesCapped ==
  WarningTrain(IF alarmConfig.enableRepeating
               THEN (IF alarmConfig.repeatCount < 2
                     THEN alarmConfig.repeatCount ELSE 2)
               ELSE 1)

\* C19 amended: a Warning sequence emits exactly 2 pulses with
\* enableRepeating, whatever repeatCount is (repeatCount = 1 still yields two
\* warning pulses), and exactly 1 pulse without enableRepeating.
C19_WarningPulsesFixed ==
  WarningTrain(IF alarmConfig.enableRepeating THEN 2 ELSE 1)

\* C19 witness: under a profile with enableRepeating and repeatCount 1 a
\* Warning sequence is in its second pulse with the output ON.
C19_Witness ==
  \E c \in Channels :
    /\ pc = "delay"
    /\ alarmConfig.enableRepeating
    /\ alarmConfig.repeatCount = 1
    /\ alarmStates[c].active
    /\ alarmStates[c].type = 1
    /\ relay[c]
    /\ GeMs(SubU32(now, alarmStates[c].startTime),
            1000 * (alarmConfig.warningDuration + alarmConfig.repeatInterval))

\* C20 as stated: the only step that changes warningTriggered of a channel
\* from true to false is a successful /start of that channel.
C20_OnlyStartClearsLatch ==
  [][\A c \in Channels :
       (fields[c].warningTriggered /\ ~fields'[c].warningTriggered)
         => StartOk(c)]_vars

\* C20 amended: the only steps that change warningTriggered of a channel from
\* true to false are a successful /start and a successful /stop of that
\* channel; ticks, processAlarms, test alarms, profile updates, status
\* queries, rejected requests and requests for other channels never clear it.
C20_StartOrStopClearsLatch ==
  [][\A c \in Channels :
       /\ (fields[c].warningTriggered /\ ~fields'[c].warningTriggered)
            => /\ pc = "handle"
               /\ resp' = 200
               /\ StartOk(c) \/ HandleStop(TRUE, c)
       /\ (fields[c].warningTriggered /\ HandleStop(TRUE, c))
            => ~fields'[c].warningTriggered
       /\ (fields[c].warningTriggered /\ StartOk(c))
            => ~fields'[c].warningTriggered
       /\ (/\ fields[c].warningTriggered
           /\ \/ pc # "handle"
              \/ \E a \in BOOLEAN, lap \in Laps : HandleAlarm(a, lap)
              \/ \E a \in BOOLEAN, b \in BOOLEAN, doc \in Docs :
                   HandleSaveConfig(a, b, doc)
              \/ HandleStatus
              \/ \E lap \in Laps \ {c}, d \in Durations :
                   HandleStart(TRUE, lap, d)
              \/ \E lap \in Laps \ {c} : HandleStop(TRUE, lap))
            => fields'[c].warningTriggered]_vars

\* C20 witness: a /stop has just cleared the latch of a channel whose warning
\* had fired: the channel is idle with the latch clear, and its Warning
\* sequence was cut short (inactive before its length had elapsed).
C20_Witness ==
  \E c \in Channels :
    /\ pc = "check"
    /\ resp = 200
    /\ fields[c].duration = 0
    /\ ~fields[c].isRunning
    /\ ~fields[c].warningTriggered
    /\ alarmStates[c].type = 1
    /\ ~alarmStates[c].active
    /\ ~SeqOver(c)

\* C21, the state part: a relay that is ON belongs to an active sequence
C21_OnImpliesActive ==
  \A c \in Channels : relay[c] => alarmStates[c].active

\* C21: no relay is ever ON without an active sequence.  In every state
\* reachable after setup, under any interleaving of start, stop, test,
\* profile-update and status requests and ticks, a channel whose relay is ON
\* has an active alarm sequence; and every step that deactivates a sequence
\* (completion in processAlarms, /stop) leaves the relay OFF.
C21_NoOutputWithoutSequence ==
  /\ []C21_OnImpliesActive
  /\ [][\A c \in Channels :
          (alarmStates[c].active /\ ~alarmStates'[c].active) => ~relay'[c]]_vars

\* C21 witness: one channel's sequence was deactivated while its last pulse
\* was ON (the cached level still shows it) and its relay is OFF, while the
\* other channel's sequence is active with its relay ON.
C21_Witness ==
  \E c \in Channels : \E o \in Channels \ {c} :
    /\ ~alarmStates[c].active
    /\ alarmStates[c].relayOn
    /\ ~relay[c]
    /\ alarmStates[o].active
    /\ relay[o]

\* the step taken from the current state ends or replaces the active Warning
\* sequence of channel c before it has run its length
WarningCutShort(c) ==
  /\ alarmStates[c].active
  /\ alarmStates[c].type = 1
  /\ ~SeqOver(c)
  /\ ~(/\ alarmStates'[c].active
       /\ alarmStates'[c].type = 1
       /\ alarmStates'[c].startTime = alarmStates[c].startTime)

\* the step is a tick, at a clock value after the one the current sequence of
\* c started at, that starts a sequence of the given kind on c
LaterTickStarts(c, kind) ==
  /\ pc = "check"
  /\ alarmStates'[c] = FreshAlarm(kind)
  /\ alarmStates[c].startTime # now

\* no tick both sets the warning latch of c and finishes c, and a tick that
\* starts a Warning sequence leaves it active with the channel running
NoTickStartsBoth(c) ==
  /\ ~(WarningStarts(c) /\ fields'[c].isFinished)
  /\ WarningStarts(c)
       => /\ alarmStates'[c] = FreshAlarm(1)
          /\ fields'[c].isRunning
          /\ RemainingSec(fields'[c], now) > 0

\* C22 as stated: no single tick starts both a Warning and a TimeUp sequence
\* on one channel, and a Warning sequence is cut short only by a TimeUp
\* sequence started in a later tick or by a test or stop request.
C22_OnlyTimeUpCutsWarning ==
  [][\A c \in Channels :
       /\ NoTickStartsBoth(c)
       /\ WarningCutShort(c)
            => \/ LaterTickStarts(c, 2)
               \/ HandleAlarm(TRUE, c)
               \/ HandleStop(TRUE, c)]_vars

\* C22 amended: no single tick starts both a Warning and a TimeUp sequence
\* on one channel (the warning needs remaining > 0, the time-up remaining =
\* 0), and a Warning sequence is cut short only by a TimeUp sequence started
\* in a later tick, by the Warning sequence of a restarted run started in a
\* later tick, or by a test or stop request; never in the tick that started
\* it.
C22_WarningCutOnlyLater ==
  [][\A c \in Channels :
       /\ NoTickStartsBoth(c)
       /\ WarningCutShort(c)
            => \/ LaterTickStarts(c, 2)
               \/ /\ LaterTickStarts(c, 1)
                  /\ ~fields[c].warningTriggered
               \/ HandleAlarm(TRUE, c)
               \/ HandleStop(TRUE, c)]_vars

\* C22 witness: a tick has just started the TimeUp sequence of a channel
\* whose warning had fired in an earlier tick of the same run, less than a
\* Warning sequence's length ago.
C22_Witness ==
  \E c \in Channels :
    /\ pc = "process"
    /\ fields[c].isFinished
    /\ fields[c].warningTriggered
    /\ alarmStates[c] = FreshAlarm(2)
    /\ fields[c].startTime # now
    /\ ~GeMs(SubU32(now, fields[c].startTime), TotalLengthMs(alarmConfig, 1))

\* C23: every run ends.  With the loop iterating and the clock advancing, a
\* channel that is running and is not stopped or restarted eventually is
\* finished and not running, also when a clock wrap re-baselines its
\* startTime during the run.
C23_RunEnds ==
  \A c \in Channels :
    fields[c].isRunning ~> (fields[c].isFinished /\ ~fields[c].isRunning)

\* C23 witness: a 31 s run that started before a clock wrap, and whose
\* startTime the tick after the wrap re-baselined to the clock value 500 ms,
\* has ended: the channel is finished with its TimeUp sequence started.
C23_Witness ==
  \E c \in Channels :
    /\ fields[c].isFinished
    /\ ~fields[c].isRunning
    /\ fields[c].duration = 31
    /\ fields[c].startTime = <<0, 500>>
    /\ alarmStates[c].type = 2
    /\ lastOverflowCheck[1] < IntMaxSec

====
